---- MODULE Spec2Model ----
(***************************************************************************)
(* A model of floww (src/src/lib.rs): the timeline algebra (TimedVec), the  *)
(* FlowwSheet registry, the FlowwPacket wire format (bincode) and the       *)
(* unpacket decoder.                                                        *)
(*                                                                         *)
(* Conventions.                                                            *)
(*  - A Point (usize, f32, f32, f32) is the tuple <<id, time, note, vel>>.  *)
(*    f32 values are drawn from small integers, on which f32 negation,      *)
(*    addition, multiplication, max and comparison are exact; NaN and the   *)
(*    infinities are not inputs.                                            *)
(*  - A String is the sequence of its UTF-8 bytes.                          *)
(*  - A FlowwPacket is <<"Msg", text>>, <<"Track", name>> or                *)
(*    <<"Point", point>>.                                                   *)
(*  - Vec indices are 0-based as in the source: slot i of a Vec v is        *)
(*    v[i + 1].                                                             *)
(***************************************************************************)
EXTENDS Integers, Sequences, FiniteSets, TLC

\* std::usize::MAX, the "no destination" value of unpacket. Only its order
\* relative to the lengths of the destination slice matters; it is the largest
\* integer the model checker represents.
USIZE_MAX == 2147483647

----------------------------------------------------------------------------
(* Helpers over sequences.                                                  *)

Drop(s, n) == SubSeq(s, n + 1, Len(s))

Take(s, n) == SubSeq(s, 1, n)

RECURSIVE Pow2(_)
Pow2(n) == IF n = 0 THEN 1 ELSE 2 * Pow2(n - 1)

RECURSIVE Log2(_)
\* floor(log2(n)) for n >= 1
Log2(n) == IF n < 2 THEN 0 ELSE 1 + Log2(n \div 2)

----------------------------------------------------------------------------
(* The timeline algebra: impl<T: Timed> TimedVec for Vec<T>, with T = Point. *)

\* Timed::time and Timed::end of a Point: both are field 1 of the tuple
time(p) == p[2]

end(p) == p[2]

\* The point with its time replaced
WithTime(p, x) == << p[1], x, p[3], p[4] >>

\* f32::max
max(x, y) == IF x >= y THEN x ELSE y

RECURSIVE InsertByTimeDescending(_, _)
\* p placed with the comparison reversed
InsertByTimeDescending(s, p) ==
    IF s = << >> THEN << p >>
    ELSE IF time(Head(s)) >= time(p)
         THEN << Head(s) >> \o InsertByTimeDescending(Tail(s), p)
    ELSE << p >> \o s

RECURSIVE InsertByTimeBeforeEqual(_, _)
\* p placed in front of the points of its own time, as a sort that is not
\* stable may do
InsertByTimeBeforeEqual(s, p) ==
    IF s = << >> THEN << p >>
    ELSE IF time(Head(s)) < time(p)
         THEN << Head(s) >> \o InsertByTimeBeforeEqual(Tail(s), p)
    ELSE << p >> \o s

RECURSIVE InsertByTime(_, _)
\* p placed in the ascending sequence s behind every point whose time is not
\* greater
InsertByTime(s, p) ==
    IF s = << >> THEN << p >>
    ELSE IF time(Head(s)) <= time(p) THEN << Head(s) >> \o InsertByTime(Tail(s), p)
    ELSE << p >> \o s

RECURSIVE SortInto(_, _)
SortInto(acc, s) ==
    IF s = << >> THEN acc ELSE SortInto(InsertByTime(acc, Head(s)), Tail(s))

\* The sort without the comparison having run: the sequence as it was
sortSkipped(s) == s

\* TimedVec::sort: slice::sort_by on the times, a stable sort
sort(s) == SortInto(<< >>, s)

\* Every time of the sequence moved by shift
Shifted(s, shift) == [k \in 1..Len(s) |-> WithTime(s[k], time(s[k]) + shift)]

\* shift_time with the shift not clamped
shift_timeUnclamped(s, t) == IF s = << >> THEN s ELSE Shifted(s, t)

\* shift_time clamping at the time of the last point
shift_timeClampsAtLast(s, t) ==
    IF s = << >> THEN s
    ELSE Shifted(s, max(t, 0 - time(s[Len(s)])))

\* TimedVec::shift_time
shift_time(s, t) ==
    IF s = << >> THEN s
    ELSE LET begin_t == time(s[1])
             shift   == max(t, 0 - begin_t)
         IN  Shifted(s, shift)

RECURSIVE MinTime(_)
\* The smallest time of a non-empty sequence
MinTime(s) ==
    IF Len(s) = 1 THEN time(s[1])
    ELSE LET m == MinTime(Tail(s)) IN IF time(s[1]) <= m THEN time(s[1]) ELSE m

\* start_from_zero taking the smallest time for begin_t
start_from_zeroMin(s) ==
    IF s = << >> THEN s ELSE Shifted(s, 0 - MinTime(s))

\* TimedVec::start_from_zero
start_from_zero(s) ==
    IF s = << >> THEN s
    ELSE LET begin_t == time(s[1])
             shift   == 0 - begin_t
         IN  Shifted(s, shift)

\* TimedVec::scale
scale(s, factor) == [k \in 1..Len(s) |-> WithTime(s[k], time(s[k]) * factor)]

\* TimedVec::merge: extend, then sort
merge(s, o) == sort(s \o o)

\* TimedVec::time_shifted
time_shifted(s, t) == shift_time(s, t)

\* fuse with other appended as it is
fuseUnshifted(s, o) == s \o o

\* fuse shifting other by 0 when self is empty
fuseShiftsWhenEmpty(s, o) ==
    LET l == Len(s)
    IN  s \o time_shifted(o, IF l = 0 THEN 0 ELSE end(s[l]))

\* TimedVec::fuse
fuse(s, o) ==
    LET l == Len(s)
    IN  IF l = 0 THEN o
        ELSE LET last_t == end(s[l])
             IN  s \o time_shifted(o, last_t)

----------------------------------------------------------------------------
(* FlowwSheet: the record of its fields flowws, names and map.              *)

\* FlowwSheet::new: Self::default()
new == [flowws |-> << >>, names |-> << >>, map |-> << >>]

\* HashMap::insert
Insert(m, k, v) == [x \in DOMAIN m \cup {k} |-> IF x = k THEN v ELSE m[x]]

\* add with the index read after the push
addIndexAfterPush(sh, floww, name) ==
    [flowws |-> Append(sh.flowws, floww),
     names  |-> Append(sh.names, name),
     map    |-> Insert(sh.map, name, Len(sh.flowws) + 1)]

\* FlowwSheet::add
add(sh, floww, name) ==
    LET index == Len(sh.flowws)
    IN  [flowws |-> Append(sh.flowws, floww),
         names  |-> Append(sh.names, name),
         map    |-> Insert(sh.map, name, index)]

\* get_floww_ref_by_name with an unknown name giving the first timeline
get_floww_ref_by_nameOrFirst(sh, name) ==
    IF name \in DOMAIN sh.map THEN sh.flowws[sh.map[name] + 1]
    ELSE IF sh.flowws = << >> THEN << >> ELSE sh.flowws[1]

\* FlowwSheet::get_floww_ref_by_name
get_floww_ref_by_name(sh, name) ==
    IF name \in DOMAIN sh.map THEN sh.flowws[sh.map[name] + 1] ELSE << >>

\* FlowwSheet::get_names
get_names(sh) == sh.names

\* reset writing the first timeline
resetFirst(sh, name, floww) ==
    IF name \in DOMAIN sh.map
    THEN [sheet |-> [sh EXCEPT !.flowws[1] = floww], ret |-> TRUE]
    ELSE [sheet |-> sh, ret |-> FALSE]

\* FlowwSheet::reset: the sheet afterwards and the returned bool
reset(sh, name, floww) ==
    IF name \in DOMAIN sh.map
    THEN [sheet |-> [sh EXCEPT !.flowws[sh.map[name] + 1] = floww], ret |-> TRUE]
    ELSE [sheet |-> sh, ret |-> FALSE]

\* The index get_floww_ref_by_name reads is inside flowws (the indexing does
\* not panic)
GetInRange(sh, name) == name \in DOMAIN sh.map => sh.map[name] < Len(sh.flowws)

\* A timeline as Point packets
PointPackets(floww) == [k \in 1..Len(floww) |-> << "Point", floww[k] >>]

RECURSIVE ZipPacketsSkipEmpty(_, _)
\* The loop with no Track packet for a track without points
ZipPacketsSkipEmpty(fs, ns) ==
    IF fs = << >> \/ ns = << >> THEN << >>
    ELSE (IF Head(fs) = << >> THEN << >> ELSE << << "Track", Head(ns) >> >>)
             \o PointPackets(Head(fs)) \o ZipPacketsSkipEmpty(Tail(fs), Tail(ns))

RECURSIVE ZipPacketsTrackLast(_, _)
\* The loop with the Track packet pushed after the points of its track
ZipPacketsTrackLast(fs, ns) ==
    IF fs = << >> \/ ns = << >> THEN << >>
    ELSE PointPackets(Head(fs)) \o << << "Track", Head(ns) >> >>
             \o ZipPacketsTrackLast(Tail(fs), Tail(ns))

\* to_floww_packets with each Track packet after its points
to_floww_packetsTrackLast(sh) == ZipPacketsTrackLast(sh.flowws, sh.names)

RECURSIVE ZipPackets(_, _)
\* The loop over flowws zipped with names: a Track packet, then the points
ZipPackets(fs, ns) ==
    IF fs = << >> \/ ns = << >> THEN << >>
    ELSE << << "Track", Head(ns) >> >> \o PointPackets(Head(fs))
             \o ZipPackets(Tail(fs), Tail(ns))

\* FlowwSheet::to_floww_packets
to_floww_packets(sh) == ZipPackets(sh.flowws, sh.names)

----------------------------------------------------------------------------
(* The wire format: bincode::serialize / bincode::deserialize_from with the *)
(* default options (little endian, fixed-width integers, u64 lengths, u32   *)
(* enum variant index), applied to Vec<FlowwPacket>.                        *)

\* u32, little endian (n < 2^31)
EncodeU32(n) ==
    << n % 256, (n \div 256) % 256, (n \div 65536) % 256, (n \div 16777216) % 256 >>

\* u64 written most significant byte first
EncodeU64BigEndian(n) ==
    << 0, 0, 0, 0, (n \div 16777216) % 256, (n \div 65536) % 256, (n \div 256) % 256,
       n % 256 >>

\* u64 / usize, little endian (n < 2^31)
EncodeU64(n) == EncodeU32(n) \o << 0, 0, 0, 0 >>

\* f32: the IEEE 754 single precision bit pattern, little endian, of the
\* integer n (|n| < 2^24): 1 sign bit, 8 exponent bits (bias 127), 23 mantissa
\* bits.
EncodeF32(n) ==
    IF n = 0 THEN << 0, 0, 0, 0 >>
    ELSE LET sign == IF n < 0 THEN 1 ELSE 0
             a    == IF n < 0 THEN 0 - n ELSE n
             e    == Log2(a)
             mant == (a - Pow2(e)) * Pow2(23 - e)
             ex   == e + 127
         IN  << mant % 256,
                (mant \div 256) % 256,
                (ex % 2) * 128 + (mant \div 65536),
                sign * 128 + (ex \div 2) >>

\* String: u64 byte length, then the UTF-8 bytes
EncodeString(s) == EncodeU64(Len(s)) \o s

\* Point = (usize, f32, f32, f32): the fields in order, no framing
EncodePoint(p) ==
    EncodeU64(p[1]) \o EncodeF32(p[2]) \o EncodeF32(p[3]) \o EncodeF32(p[4])

\* The variant index of the enum FlowwPacket, in declaration order
VariantIndex(tag) ==
    CASE tag = "Msg"   -> 0
      [] tag = "Track" -> 1
      [] tag = "Point" -> 2

EncodePacket(pk) ==
    EncodeU32(VariantIndex(pk[1])) \o
        (IF pk[1] = "Point" THEN EncodePoint(pk[2]) ELSE EncodeString(pk[2]))

RECURSIVE EncodePackets(_)
EncodePackets(ps) ==
    IF ps = << >> THEN << >>
    ELSE EncodePacket(Head(ps)) \o EncodePackets(Tail(ps))

\* Encodable::encode for Vec<FlowwPacket>: u64 element count, then the packets
encode(ps) == EncodeU64(Len(ps)) \o EncodePackets(ps)

\* A decoding step: a failure, or a value and the bytes not yet consumed
Fail == [ok |-> FALSE, val |-> << >>, rest |-> << >>]

Done(v, r) == [ok |-> TRUE, val |-> v, rest |-> r]

\* u32: 4 bytes. A value of 2^31 or more is reported as USIZE_MAX.
DecodeU32(b) ==
    IF Len(b) < 4 THEN Fail
    ELSE IF b[4] >= 128 THEN Done(USIZE_MAX, Drop(b, 4))
    ELSE Done(b[1] + 256 * b[2] + 65536 * b[3] + 16777216 * b[4], Drop(b, 4))

\* u64 / usize: 8 bytes. A value of 2^31 or more is reported as USIZE_MAX.
DecodeU64(b) ==
    IF Len(b) < 8 THEN Fail
    ELSE LET lo == DecodeU32(b)
         IN  IF b[5] = 0 /\ b[6] = 0 /\ b[7] = 0 /\ b[8] = 0
             THEN Done(lo.val, Drop(b, 8))
             ELSE Done(USIZE_MAX, Drop(b, 8))

\* f32: 4 bytes, every bit pattern is a value. A pattern that is an integer of
\* magnitude below 2^24 is that integer; any other pattern (a fraction, a
\* larger magnitude, -0.0, a subnormal, an infinity, a NaN) stays the tagged
\* pattern.
DecodeF32(b) ==
    IF Len(b) < 4 THEN Fail
    ELSE LET sign == b[4] \div 128
             ex   == (b[4] % 128) * 2 + (b[3] \div 128)
             mant == (b[3] % 128) * 65536 + b[2] * 256 + b[1]
             e    == ex - 127
             bits == << "f32", b[1], b[2], b[3], b[4] >>
             v    == IF ex = 0 /\ mant = 0 /\ sign = 0 THEN 0
                     ELSE IF e >= 0 /\ e <= 23 /\ mant % Pow2(23 - e) = 0
                     THEN (IF sign = 1 THEN 0 - 1 ELSE 1)
                              * ((Pow2(23) + mant) \div Pow2(23 - e))
                     ELSE bits
         IN  Done(v, Drop(b, 4))

\* The byte is a UTF-8 continuation byte
IsCont(x) == x >= 128 /\ x <= 191

RECURSIVE ValidUtf8(_)
\* std::str::from_utf8 accepts the bytes
ValidUtf8(s) ==
    IF s = << >> THEN TRUE
    ELSE LET a == s[1]
         IN  IF a < 128 THEN ValidUtf8(Drop(s, 1))
             ELSE IF a >= 194 /\ a <= 223
             THEN Len(s) >= 2 /\ IsCont(s[2]) /\ ValidUtf8(Drop(s, 2))
             ELSE IF a >= 224 /\ a <= 239
             THEN /\ Len(s) >= 3
                  /\ IsCont(s[2])
                  /\ IsCont(s[3])
                  /\ (a = 224 => s[2] >= 160)
                  /\ (a = 237 => s[2] <= 159)
                  /\ ValidUtf8(Drop(s, 3))
             ELSE IF a >= 240 /\ a <= 244
             THEN /\ Len(s) >= 4
                  /\ IsCont(s[2])
                  /\ IsCont(s[3])
                  /\ IsCont(s[4])
                  /\ (a = 240 => s[2] >= 144)
                  /\ (a = 244 => s[2] <= 143)
                  /\ ValidUtf8(Drop(s, 4))
             ELSE FALSE

\* String: the length, then that many bytes, which must be UTF-8
DecodeString(b) ==
    LET n == DecodeU64(b)
    IN  IF ~n.ok THEN Fail
        ELSE IF n.val > Len(n.rest) THEN Fail
        ELSE IF ~ValidUtf8(Take(n.rest, n.val)) THEN Fail
        ELSE Done(Take(n.rest, n.val), Drop(n.rest, n.val))

DecodePoint(b) ==
    LET id == DecodeU64(b)
        t  == DecodeF32(id.rest)
        n  == DecodeF32(t.rest)
        v  == DecodeF32(n.rest)
    IN  IF ~id.ok THEN Fail
        ELSE IF ~t.ok THEN Fail
        ELSE IF ~n.ok THEN Fail
        ELSE IF ~v.ok THEN Fail
        ELSE Done(<< id.val, t.val, n.val, v.val >>, v.rest)

\* One FlowwPacket: the variant index (0, 1 or 2), then the payload
DecodePacket(b) ==
    LET tag == DecodeU32(b)
    IN  IF ~tag.ok THEN Fail
        ELSE IF tag.val = 0
        THEN LET s == DecodeString(tag.rest)
             IN  IF s.ok THEN Done(<< "Msg", s.val >>, s.rest) ELSE Fail
        ELSE IF tag.val = 1
        THEN LET s == DecodeString(tag.rest)
             IN  IF s.ok THEN Done(<< "Track", s.val >>, s.rest) ELSE Fail
        ELSE IF tag.val = 2
        THEN LET p == DecodePoint(tag.rest)
             IN  IF p.ok THEN Done(<< "Point", p.val >>, p.rest) ELSE Fail
        ELSE Fail

RECURSIVE DecodePackets(_, _)
\* n packets in a row
DecodePackets(n, b) ==
    IF n = 0 THEN Done(<< >>, b)
    ELSE LET pk == DecodePacket(b)
         IN  IF ~pk.ok THEN Fail
             ELSE LET more == DecodePackets(n - 1, pk.rest)
                  IN  IF ~more.ok THEN Fail
                      ELSE Done(<< pk.val >> \o more.val, more.rest)

\* DecodeIntoFlowwPackets::decoded: Ok(packets) or Err. Bytes after the last
\* packet are left unread in the reader.
decoded(b) ==
    LET n == DecodeU64(b)
    IN  IF ~n.ok THEN Fail
        ELSE IF n.val > Len(n.rest) THEN Fail
        ELSE DecodePackets(n.val, n.rest)

----------------------------------------------------------------------------
(* unpacket: routes the packets of one batch into the destination           *)
(* timelines.                                                               *)

\* map.get(&name): the index, or the "no destination" value
Lookup(m, name) == IF name \in DOMAIN m THEN m[name] ELSE USIZE_MAX

\* The loop body with a Track packet of an unknown name leaving current as it
\* was
UnpacketPacketKeep(st, m, pk) ==
    CASE pk[1] = "Msg" ->
            [st EXCEPT !.messages = Append(@, pk[2])]
      [] pk[1] = "Track" ->
            IF pk[2] \in DOMAIN m THEN [st EXCEPT !.current = m[pk[2]]] ELSE st
      [] pk[1] = "Point" ->
            IF st.current = USIZE_MAX THEN st
            ELSE IF st.current >= Len(st.flowws) THEN st
            ELSE [st EXCEPT !.flowws[st.current + 1] = Append(@, pk[2])]

\* One iteration of the loop over the packets. st is the local state of the
\* call: the destination slice, current and messages.
UnpacketPacket(st, m, pk) ==
    CASE pk[1] = "Msg" ->
            [st EXCEPT !.messages = Append(@, pk[2])]
      [] pk[1] = "Track" ->
            [st EXCEPT !.current = Lookup(m, pk[2])]
      [] pk[1] = "Point" ->
            IF st.current = USIZE_MAX THEN st
            ELSE IF st.current >= Len(st.flowws) THEN st
            ELSE [st EXCEPT !.flowws[st.current + 1] = Append(@, pk[2])]

RECURSIVE UnpacketLoop(_, _, _)
UnpacketLoop(st, m, ps) ==
    IF ps = << >> THEN st
    ELSE UnpacketLoop(UnpacketPacket(st, m, Head(ps)), m, Tail(ps))

\* The whole call: current starts at 0 and messages empty, in every call
unpacket(fs, m, ps) ==
    UnpacketLoop([flowws |-> fs, current |-> 0, messages |-> << >>], m, ps)

----------------------------------------------------------------------------
(* Bounds and input sets of the decoding pipeline.                          *)

\* Packets in one batch
MaxBatch == 4

\* Points held by all destination timelines together
MaxStored == 2

\* Packets in one batch of the wire round trip
MaxWire == 3

\* "snare", "kick", "beat" and a two-byte character, as UTF-8
Snare == << 115, 110, 97, 114, 101 >>

Kick == << 107, 105, 99, 107 >>

Beat == << 98, 101, 97, 116 >>

EAcute == << 195, 169 >>

\* The points the senders of the pipeline use
P1 == << 0, 1, 0, 1 >>

P2 == << 1, 2, 60, 0 >>

PipePackets ==
    { << "Msg", Beat >>, << "Track", Snare >>, << "Track", Kick >>,
      << "Point", P1 >>, << "Point", P2 >> }

\* The name->index mappings a caller supplies (two destination timelines):
\* both names in range; one name unknown; one index out of range; one index
\* equal to usize::MAX.
Maps ==
    { (Snare :> 0) @@ (Kick :> 1),
      (Snare :> 1),
      (Snare :> 2) @@ (Kick :> 0),
      (Snare :> 0) @@ (Kick :> USIZE_MAX) }

\* The packets of the wire round trip: empty, ASCII and non-ASCII text, ids
\* of one and two bytes, negative, zero and positive f32 fields
WirePoints == { << id, t, n, v >> : id \in {0, 258}, t \in {0 - 3, 0, 6},
                                     n \in {60}, v \in {1} }

WirePackets ==
    { << "Msg", s >> : s \in { << >>, EAcute } }
        \cup { << "Track", s >> : s \in { Snare, EAcute } }
        \cup { << "Point", p >> : p \in WirePoints }

SeqsUpTo(S, n) == UNION { [1..k -> S] : k \in 0..n }

RECURSIVE CountPoints(_)
CountPoints(ps) ==
    IF ps = << >> THEN 0
    ELSE (IF Head(ps)[1] = "Point" THEN 1 ELSE 0) + CountPoints(Tail(ps))

RECURSIVE TotalLen(_)
TotalLen(fs) == IF fs = << >> THEN 0 ELSE Len(Head(fs)) + TotalLen(Tail(fs))

----------------------------------------------------------------------------
(* State.                                                                   *)

VARIABLES
    pc,        \* where the pipeline stands
    a,         \* the Vec<FlowwPacket> the sender holds
    wire,      \* the bytes handed to the reader
    intact,    \* the bytes are those encode produced
    received,  \* the Result of decoded(): ok and the packets, or an error
    flowws,    \* the destination timelines (tracks)
    map,       \* the name->index mapping
    before,    \* the destination timelines when unpacket was entered
    current,   \* the local current of unpacket when it returned
    messages,  \* what unpacket returned
    prior,     \* what the last Track packet of the earlier batches resolved to
    self,      \* the timeline the algebra works on
    other,     \* the timeline argument of the last merge or fuse
    t,         \* the f32 argument of the last shift_time or scale
    op,        \* the last operation on self
    old,       \* self before the last operation
    origin,    \* what self was made from, see Class
    sheet,     \* the FlowwSheet
    sheetOp,   \* the last operation on the sheet
    sheetArg,  \* its name and timeline arguments
    sheetRet,  \* what it returned
    sheetOld,  \* the sheet before it
    dup,       \* add was called with a name the sheet already had
    stored     \* per name, the timeline add or reset stored under it last

pipeVars ==
    << pc, a, wire, intact, received, flowws, map, before, current, messages, prior >>

algVars == << self, other, t, op, old, origin >>

sheetVars == << sheet, sheetOp, sheetArg, sheetRet, sheetOld, dup, stored >>

vars == << pipeVars, algVars, sheetVars >>

\* No Track packet so far
NoTrack == 0 - 1

RECURSIVE LastTrack(_, _)
\* What the last Track packet of the batch resolves to; NoTrack without one
LastTrack(m, ps) ==
    IF ps = << >> THEN NoTrack
    ELSE IF ps[Len(ps)][1] = "Track" THEN Lookup(m, ps[Len(ps)][2])
    ELSE LastTrack(m, Take(ps, Len(ps) - 1))

NoResult == [ok |-> FALSE, val |-> << >>, rest |-> << >>]

\* let mut tracks = vec![vec![], vec![]]; nothing sent yet
PipeIdle ==
    /\ pc = "build"
    /\ a = << >>
    /\ wire = << >>
    /\ intact = TRUE
    /\ received = NoResult
    /\ flowws = << << >>, << >> >>
    /\ before = flowws
    /\ current = 0
    /\ messages = << >>
    /\ prior = NoTrack

\* An empty timeline nothing was done to
AlgIdle ==
    /\ self = << >>
    /\ other = << >>
    /\ t = 0
    /\ op = "new"
    /\ old = << >>
    /\ origin = "ascending"

\* FlowwSheet::new()
SheetIdle ==
    /\ sheet = new
    /\ sheetOp = "new"
    /\ sheetArg = << >>
    /\ sheetRet = << >>
    /\ sheetOld = new
    /\ dup = FALSE
    /\ stored = << >>

Init ==
    /\ PipeIdle
    /\ map \in Maps
    /\ AlgIdle
    /\ SheetIdle

\* The sender adds a packet to the batch it is building
Push(pk) ==
    /\ pc = "build"
    /\ Len(a) < MaxBatch
    /\ CountPoints(a) + (IF pk[1] = "Point" THEN 1 ELSE 0) + TotalLen(flowws)
           <= MaxStored
    /\ a' = Append(a, pk)
    /\ UNCHANGED << pc, wire, intact, received, flowws, map, before, current, messages, prior >>
    /\ UNCHANGED << algVars, sheetVars >>

\* a.encoded()
Encode ==
    /\ pc = "build"
    /\ wire' = encode(a)
    /\ intact' = TRUE
    /\ pc' = "wire"
    /\ UNCHANGED << a, received, flowws, map, before, current, messages, prior >>
    /\ UNCHANGED << algVars, sheetVars >>

\* The transport loses the last byte
Truncate ==
    /\ pc = "wire"
    /\ intact
    /\ wire' = Take(wire, Len(wire) - 1)
    /\ intact' = FALSE
    /\ UNCHANGED << pc, a, received, flowws, map, before, current, messages, prior >>
    /\ UNCHANGED << algVars, sheetVars >>

\* The transport damages the variant index of the first packet
Garble ==
    /\ pc = "wire"
    /\ intact
    /\ Len(wire) > 8
    /\ wire' = [wire EXCEPT ![9] = 3]
    /\ intact' = FALSE
    /\ UNCHANGED << pc, a, received, flowws, map, before, current, messages, prior >>
    /\ UNCHANGED << algVars, sheetVars >>

\* bytes.decoded()
Decode ==
    /\ pc = "wire"
    /\ received' = decoded(wire)
    /\ pc' = "decoded"
    /\ UNCHANGED << a, wire, intact, flowws, map, before, current, messages, prior >>
    /\ UNCHANGED << algVars, sheetVars >>

\* unpacket(&mut tracks, &map, <the Ok value>)
Unpacket ==
    /\ pc = "decoded"
    /\ received.ok
    /\ LET st == unpacket(flowws, map, received.val)
       IN  /\ flowws' = st.flowws
           /\ current' = st.current
           /\ messages' = st.messages
    /\ before' = flowws
    /\ pc' = "returned"
    /\ UNCHANGED << a, wire, intact, received, map, prior >>
    /\ UNCHANGED << algVars, sheetVars >>

\* .unwrap() of an Err: the caller panics
UnwrapErr ==
    /\ pc = "decoded"
    /\ ~received.ok
    /\ pc' = "panicked"
    /\ UNCHANGED << a, wire, intact, received, flowws, map, before, current, messages, prior >>
    /\ UNCHANGED << algVars, sheetVars >>

\* The caller drops the messages and the sender starts the next batch
NextBatch ==
    /\ pc = "returned"
    /\ pc' = "build"
    /\ a' = << >>
    /\ wire' = << >>
    /\ intact' = TRUE
    /\ prior' = IF LastTrack(map, received.val) = NoTrack THEN prior
                 ELSE LastTrack(map, received.val)
    /\ received' = NoResult
    /\ before' = flowws
    /\ current' = 0
    /\ messages' = << >>
    /\ UNCHANGED << flowws, map >>
    /\ UNCHANGED << algVars, sheetVars >>

Next ==
    \/ \E pk \in PipePackets : Push(pk)
    \/ Encode
    \/ Truncate
    \/ Garble
    \/ Decode
    \/ Unpacket
    \/ UnwrapErr
    \/ NextBatch

Spec == Init /\ [][Next]_vars

\* The wire round trip on its own: any batch of WirePackets is encoded and
\* decoded
InitWire ==
    /\ pc = "build"
    /\ a \in SeqsUpTo(WirePackets, MaxWire)
    /\ wire = << >>
    /\ intact = TRUE
    /\ received = NoResult
    /\ flowws = << << >>, << >> >>
    /\ map = (Snare :> 0) @@ (Kick :> 1)
    /\ before = flowws
    /\ current = 0
    /\ messages = << >>
    /\ prior = NoTrack
    /\ AlgIdle
    /\ SheetIdle

NextWire ==
    \/ Encode
    \/ Truncate
    \/ Garble
    \/ Decode

SpecWire == InitWire /\ [][NextWire]_vars

----------------------------------------------------------------------------
(* The timeline algebra as a state machine: any timeline, then any sequence *)
(* of operations on it.                                                     *)

\* Points of one timeline
MaxLen == 3

\* The largest time, and the largest shift and factor, of the algebra
MaxTime == 3

Times == (0 - 1)..MaxTime

AlgPoints == { << id, x, 0, 0 >> : id \in {0, 1}, x \in Times }

Timelines == SeqsUpTo(AlgPoints, MaxLen)

\* The timeline stays within the bounds
InBounds(s) == Len(s) <= MaxLen /\ \A k \in 1..Len(s) : time(s[k]) \in Times

Ascending(s) == \A j, k \in 1..Len(s) : j < k => s[j][2] <= s[k][2]

NonNegative(s) == \A k \in 1..Len(s) : time(s[k]) >= 0

\* An input timeline: "ascending" when its times are non-negative and ascend,
\* "nonneg" when they are non-negative only, "any" otherwise
Class(s) ==
    IF NonNegative(s) /\ Ascending(s) THEN "ascending"
    ELSE IF NonNegative(s) THEN "nonneg"
    ELSE "any"

\* The weaker of two classes
Weakest(x, y) ==
    IF x = "any" \/ y = "any" THEN "any"
    ELSE IF x = "nonneg" \/ y = "nonneg" THEN "nonneg"
    ELSE "ascending"

\* The operations that keep the origin of self: those that only shift or
\* combine timelines
Composing == { "shift_time", "start_from_zero", "merge", "fuse" }

InitAlgebra ==
    /\ PipeIdle
    /\ map = (Snare :> 0) @@ (Kick :> 1)
    /\ SheetIdle
    /\ self \in Timelines
    /\ other = << >>
    /\ t = 0
    /\ op = "new"
    /\ old = self
    /\ origin = Class(self)

\* The step of an operation that takes self to s
Apply(name, s, x, o) ==
    /\ InBounds(s)
    /\ self' = s
    /\ old' = self
    /\ op' = name
    /\ t' = x
    /\ other' = o
    /\ origin' = IF name \in Composing THEN Weakest(origin, Class(o)) ELSE "any"
    /\ UNCHANGED << pipeVars, sheetVars >>

Sort == Apply("sort", sort(self), 0, << >>)

ShiftTime(x) == Apply("shift_time", shift_time(self, x), x, << >>)

StartFromZero == Apply("start_from_zero", start_from_zero(self), 0, << >>)

Scale(factor) == Apply("scale", scale(self, factor), factor, << >>)

Merge(o) == Apply("merge", merge(self, o), 0, o)

Fuse(o) == Apply("fuse", fuse(self, o), 0, o)

NextAlgebra ==
    \/ Sort
    \/ \E x \in (0 - MaxTime - 2)..MaxTime : ShiftTime(x)
    \/ StartFromZero
    \/ \E factor \in {0 - 1, 0, 2} : Scale(factor)
    \/ \E o \in SeqsUpTo(AlgPoints, MaxLen - Len(self)) : Merge(o)
    \/ \E o \in SeqsUpTo(AlgPoints, MaxLen - Len(self)) : Fuse(o)

SpecAlgebra == InitAlgebra /\ [][NextAlgebra]_vars

----------------------------------------------------------------------------
(* The FlowwSheet as a state machine.                                       *)

\* Tracks of one sheet
MaxTracks == 3

Crash == << 99, 114, 97, 115, 104 >>

SheetNames == { Snare, Kick, Crash }

SheetFlowws == { << >>, << P1 >>, << P2, P1 >> }

InitSheet ==
    /\ PipeIdle
    /\ map = (Snare :> 0) @@ (Kick :> 1)
    /\ AlgIdle
    /\ SheetIdle

\* The sheet was neither consumed by to_floww_packets nor lost in a panic
Alive == sheetOp \notin { "to_floww_packets", "unpacket", "panicked" }

Add(floww, name) ==
    /\ Alive
    /\ Len(sheet.flowws) < MaxTracks
    /\ sheet' = add(sheet, floww, name)
    /\ dup' = (dup \/ name \in DOMAIN sheet.map)
    /\ stored' = Insert(stored, name, floww)
    /\ sheetOp' = "add"
    /\ sheetArg' = << name, floww >>
    /\ sheetRet' = << >>
    /\ sheetOld' = sheet
    /\ UNCHANGED << pipeVars, algVars >>

Reset(name, floww) ==
    /\ Alive
    /\ sheet' = reset(sheet, name, floww).sheet
    /\ sheetRet' = reset(sheet, name, floww).ret
    /\ stored' = IF reset(sheet, name, floww).ret THEN Insert(stored, name, floww)
                  ELSE stored
    /\ sheetOp' = "reset"
    /\ sheetArg' = << name, floww >>
    /\ sheetOld' = sheet
    /\ UNCHANGED << dup, pipeVars, algVars >>

\* The slice is returned, or the indexing panics
GetFlowwRefByName(name) ==
    /\ Alive
    /\ IF GetInRange(sheet, name)
       THEN /\ sheetRet' = get_floww_ref_by_name(sheet, name)
            /\ sheetOp' = "get_floww_ref_by_name"
       ELSE /\ sheetRet' = << >>
            /\ sheetOp' = "panicked"
    /\ sheetArg' = << name, << >> >>
    /\ sheetOld' = sheet
    /\ UNCHANGED << sheet, dup, stored, pipeVars, algVars >>

GetNames ==
    /\ Alive
    /\ sheetRet' = get_names(sheet)
    /\ sheetOp' = "get_names"
    /\ sheetArg' = << >>
    /\ sheetOld' = sheet
    /\ UNCHANGED << sheet, dup, stored, pipeVars, algVars >>

\* sheet.to_floww_packets(): the sheet is moved into the call
ToFlowwPackets ==
    /\ Alive
    /\ sheetRet' = to_floww_packets(sheet)
    /\ sheetOp' = "to_floww_packets"
    /\ sheetArg' = << >>
    /\ sheetOld' = sheet
    /\ UNCHANGED << sheet, dup, stored, pipeVars, algVars >>

\* unpacket(&mut tracks, &map, packets) with the packets of the sheet, its
\* mapping and one empty timeline per track
UnpacketSheet ==
    /\ sheetOp = "to_floww_packets"
    /\ LET tracks == [i \in 1..Len(sheet.flowws) |-> << >>]
           st     == unpacket(tracks, sheet.map, sheetRet)
       IN  /\ before' = tracks
           /\ flowws' = st.flowws
           /\ current' = st.current
           /\ messages' = st.messages
    /\ map' = sheet.map
    /\ sheetOp' = "unpacket"
    /\ UNCHANGED << pc, a, wire, intact, received, prior >>
    /\ UNCHANGED << sheet, sheetArg, sheetRet, sheetOld, dup, stored, algVars >>

NextSheet ==
    \/ \E f \in SheetFlowws, n \in SheetNames : Add(f, n)
    \/ \E f \in SheetFlowws, n \in SheetNames : Reset(n, f)
    \/ \E n \in SheetNames : GetFlowwRefByName(n)
    \/ GetNames
    \/ ToFlowwPackets
    \/ UnpacketSheet

SpecSheet == InitSheet /\ [][NextSheet]_vars

----------------------------------------------------------------------------
(* Properties of the wire format and of unpacket.                           *)

\* The variants a batch holds
Variants(ps) == { ps[k][1] : k \in 1..Len(ps) }

\* C1: decoding the bytes encode(p) produced succeeds and yields p: the same
\* length, and the same variant and payload at every position.
C1_RoundTrip ==
    (pc = "decoded" /\ intact) =>
        /\ received.ok
        /\ Len(received.val) = Len(a)
        /\ \A k \in 1..Len(a) : received.val[k] = a[k]

\* A batch with a Msg, a Track and a Point packet, the point at a negative
\* time, has made the round trip
C1_Witness ==
    /\ pc = "decoded"
    /\ intact
    /\ received.ok
    /\ Variants(a) = { "Msg", "Track", "Point" }
    /\ \E k \in 1..Len(a) : a[k][1] = "Point" /\ a[k][2][2] < 0

\* The position of the most recent Track packet before position k; 0 without
\* one
TrackBefore(ps, k) ==
    LET J == { j \in 1..(k - 1) : ps[j][1] = "Track" }
    IN  IF J = {} THEN 0 ELSE CHOOSE j \in J : \A h \in J : h <= j

\* The positions of the Point packets whose most recent preceding Track packet
\* resolves to slot i
RoutedAt(ps, m, i) ==
    { k \in 1..Len(ps) :
        /\ ps[k][1] = "Point"
        /\ TrackBefore(ps, k) # 0
        /\ Lookup(m, ps[TrackBefore(ps, k)][2]) = i }

RECURSIVE PointsAt(_, _, _)
\* The points at the positions K from position k on, in packet order
PointsAt(ps, K, k) ==
    IF k > Len(ps) THEN << >>
    ELSE (IF k \in K THEN << ps[k][2] >> ELSE << >>) \o PointsAt(ps, K, k + 1)

Routed(ps, m, i) == PointsAt(ps, RoutedAt(ps, m, i), 1)

\* The Point packets with no Track packet before them in the batch
Leading(ps) == { k \in 1..Len(ps) : ps[k][1] = "Point" /\ TrackBefore(ps, k) = 0 }

\* What the call appended to slot i
Appended(i) == Drop(flowws[i + 1], Len(before[i + 1]))

Slots == 0..(Len(flowws) - 1)

RECURSIVE SumOver(_, _)
SumOver(f, S) ==
    IF S = {} THEN 0
    ELSE LET x == CHOOSE y \in S : TRUE IN f[x] + SumOver(f, S \ {x})

\* C2: after unpacket, slot i is its content before the call followed by, in
\* packet order, exactly the Point packets whose most recent preceding Track
\* packet resolved to i (so a timeline no Track selected is unchanged, and a
\* Point resolved to no slot is ignored).
C2_ExactlyRouted ==
    pc = "returned" =>
        /\ Len(flowws) = Len(before)
        /\ \A i \in Slots : flowws[i + 1] = before[i + 1] \o Routed(received.val, map, i)

C4_StartsWithNoDestination ==
    (pc = "returned" /\ prior = NoTrack /\ "Track" \notin Variants(received.val)) =>
        flowws = before

\* C5: after a batch whose last Track packet resolved to slot i, a Point
\* packet at the start of the next batch is appended to slot i.
C5_DestinationPersists ==
    (/\ pc = "returned"
     /\ prior \in Slots
     /\ received.val # << >>
     /\ received.val[1][1] = "Point") =>
        /\ Len(Appended(prior)) >= 1
        /\ Appended(prior)[1] = received.val[1][2]

\* C6: when the bytes do not parse as a packet batch, decoding returns an
\* empty message list and changes no destination timeline; it does not end in
\* an error or a panic.
C6_SoftFailure ==
    (pc \in { "returned", "panicked" } /\ ~received.ok) =>
        /\ pc = "returned"
        /\ messages = << >>
        /\ flowws = before

----------------------------------------------------------------------------
(* Properties of the timeline algebra.                                      *)

\* The points of s are those of r with every time moved by d
MovedBy(s, r, d) ==
    /\ Len(s) = Len(r)
    /\ \A k \in 1..Len(r) : s[k] = WithTime(r[k], time(r[k]) + d)

\* C7: shift_time(t) on a non-empty timeline whose first point has time begin
\* adds the same amount to every time: t when t >= -begin and -begin otherwise,
\* so the first time afterwards is >= 0; an empty timeline stays empty.
C7_ShiftClamps ==
    op = "shift_time" =>
        IF old = << >> THEN self = << >>
        ELSE LET begin == old[1][2]
             IN  /\ self[1][2] >= 0
                 /\ (t >= 0 - begin => MovedBy(self, old, t))
                 /\ (t < 0 - begin => MovedBy(self, old, 0 - begin))

\* An unsorted timeline was shifted by less than -begin: the shift was clamped
C7_Witness ==
    /\ op = "shift_time"
    /\ Len(old) >= 2
    /\ old[2][2] < old[1][2]
    /\ t < 0 - old[1][2]
    /\ self[1][2] = 0
    /\ self # old

\* C8 as stated: in fuse(a, b) of non-empty a and b, the first point b
\* contributed has the end-time of a's last point.
C8_FuseContinuity ==
    (op = "fuse" /\ old # << >> /\ other # << >>) =>
        self[Len(old) + 1][2] = old[Len(old)][2]

\* C8, amended: that point has its own time in b plus max(e, -(that time)),
\* e being the end-time of a's last point; this is e when its time in b is 0
\* and e >= 0.
C8_FuseShiftsOther ==
    (op = "fuse" /\ old # << >> /\ other # << >>) =>
        LET e  == old[Len(old)][2]
            b0 == other[1][2]
            d  == IF e >= 0 - b0 THEN e ELSE 0 - b0
        IN  /\ Len(self) = Len(old) + Len(other)
            /\ self[Len(old) + 1] = WithTime(other[1], b0 + d)
            /\ ((b0 = 0 /\ e >= 0) => self[Len(old) + 1][2] = e)

\* Two non-empty timelines were fused, the second one not starting at 0
C8_Witness ==
    /\ op = "fuse"
    /\ old # << >>
    /\ other # << >>
    /\ other[1][2] > 0
    /\ old[Len(old)][2] > 0
    /\ self[Len(old) + 1][2] = other[1][2] + old[Len(old)][2]

\* How often p occurs in s
Count(s, p) == Cardinality({ k \in 1..Len(s) : s[k] = p })

\* C9: merge(a, b) has len(a) + len(b) points, the points of a and of b with
\* their multiplicities, and is ascending by time.
C9_MergeSorted ==
    op = "merge" =>
        /\ Len(self) = Len(old) + Len(other)
        /\ \A p \in AlgPoints : Count(self, p) = Count(old, p) + Count(other, p)
        /\ Ascending(self)

\* An unsorted timeline was merged with a non-empty one
C9_Witness ==
    /\ op = "merge"
    /\ Len(old) >= 2
    /\ ~Ascending(old)
    /\ other # << >>
    /\ self # old \o other

\* C13: start_from_zero on a non-empty timeline, sorted or not, leaves the
\* first point at time 0 and every time reduced by the time the first point
\* had, which is what shift_time(-begin) gives; an empty timeline stays empty.
C13_StartFromZero ==
    op = "start_from_zero" =>
        IF old = << >> THEN self = << >>
        ELSE /\ time(self[1]) = 0
             /\ MovedBy(self, old, 0 - time(old[1]))
             /\ self = shift_time(old, 0 - time(old[1]))

\* A timeline whose first point is not its earliest was started from zero
C13_Witness ==
    /\ op = "start_from_zero"
    /\ Len(old) >= 2
    /\ time(old[1]) > time(old[2])
    /\ time(old[1]) > 0
    /\ time(self[1]) = 0
    /\ time(self[2]) < 0

\* C14: sort is idempotent: sorting the result of sort again gives the same
\* sequence; the result is ascending by time and a permutation of the input.
C14_SortIdempotent ==
    op = "sort" =>
        /\ sort(self) = self
        /\ Ascending(self)
        /\ Len(self) = Len(old)
        /\ \A p \in AlgPoints : Count(self, p) = Count(old, p)

\* A timeline that was out of order, with two points of one time, was sorted
C14_Witness ==
    /\ op = "sort"
    /\ Len(old) = 3
    /\ ~Ascending(old)
    /\ self # old
    /\ \E j, k \in 1..3 : j < k /\ time(old[j]) = time(old[k]) /\ old[j] # old[k]

\* C15: fuse(a, b) has len(a) + len(b) points and starts with the points of
\* a, unchanged and in order; when a is empty the result is b, not shifted.
C15_FusePrefix ==
    op = "fuse" =>
        /\ Len(self) = Len(old) + Len(other)
        /\ Take(self, Len(old)) = old
        /\ (old = << >> => self = other)

\* An empty timeline was fused with one that starts at a negative time, where
\* a shift by 0 would have moved it
C15_Witness ==
    /\ op = "fuse"
    /\ old = << >>
    /\ Len(other) >= 2
    /\ time(other[1]) < 0
    /\ self = other
    /\ self # shift_time(other, 0)

\* C17, as stated: from timelines with non-negative times, no sequence of
\* shift_time, start_from_zero, merge and fuse gives a negative time.
C17_NoNegativeTimes ==
    origin \in { "ascending", "nonneg" } => NonNegative(self)

\* C17, for sorted inputs: from timelines that are ascending by time with
\* non-negative times, every sequence of shift_time, start_from_zero, merge and
\* fuse gives a timeline that is ascending and has no negative time.
C17_NoNegativeTimesSorted ==
    origin = "ascending" => (NonNegative(self) /\ Ascending(self))

\* A sorted timeline of three points was shifted back further than its first
\* time, and the clamp held the shift
C17_Witness ==
    /\ origin = "ascending"
    /\ op = "shift_time"
    /\ Len(old) = 3
    /\ time(old[1]) > 0
    /\ t < 0 - time(old[1])
    /\ time(self[1]) = 0
    /\ time(self[3]) > 0

\* The points of s that have time x, in their order in s
AtTime(s, x) == LET Here(p) == time(p) = x IN SelectSeq(s, Here)

\* C19: sort is stable and merge inherits it: points of one time keep their
\* order across sort, and in merge(a, b) the points of a of one time come
\* before those of b of that time, each group in its input order.
C19_SortStable ==
    /\ op = "sort" =>
          \A x \in Times : AtTime(self, x) = AtTime(old, x)
    /\ op = "merge" =>
          \A x \in Times : AtTime(self, x) = AtTime(old, x) \o AtTime(other, x)

\* Two timelines with points of one time were merged, the order of the ids at
\* that time showing which came from where
C19_Witness ==
    /\ op = "merge"
    /\ Len(old) = 2
    /\ Len(other) = 1
    /\ time(old[1]) > time(old[2])
    /\ time(other[1]) = time(old[2])
    /\ old[2][1] = 1
    /\ other[1][1] = 0
    /\ self = << old[2], other[1], old[1] >>

----------------------------------------------------------------------------
(* Properties of the FlowwSheet.                                            *)

\* C10: while add is only called with names not yet present, the sheet has as
\* many names as timelines, map[names[i]] = i for every index i, and no
\* operation changes the index of a name.
C10_SheetConsistent ==
    ~dup =>
        /\ Len(sheet.names) = Len(sheet.flowws)
        /\ \A i \in 0..(Len(sheet.names) - 1) :
             /\ sheet.names[i + 1] \in DOMAIN sheet.map
             /\ sheet.map[sheet.names[i + 1]] = i
        /\ \A n \in DOMAIN sheetOld.map :
             n \in DOMAIN sheet.map /\ sheet.map[n] = sheetOld.map[n]

\* Three names were added and a timeline of the sheet was replaced
C10_Witness ==
    /\ ~dup
    /\ Len(sheet.names) = 3
    /\ sheetOp = "reset"
    /\ sheetRet = TRUE
    /\ sheet.flowws # sheetOld.flowws

\* Position of the Track packet of track k (counted from 1) in the packets of
\* a sheet with timelines fs
TrackPosition(fs, k) == k + TotalLen(Take(fs, k - 1))

\* C11: to_floww_packets gives, for each track in insertion order, one Track
\* packet with the name of the track, then one Point packet per point of the
\* track in the order of the timeline, and nothing else: the result has
\* (number of tracks + total number of points) packets and no Msg packet.
C11_ToPacketsLayout ==
    sheetOp = "to_floww_packets" =>
        /\ Len(sheetRet) = Len(sheetOld.flowws) + TotalLen(sheetOld.flowws)
        /\ \A k \in 1..Len(sheetRet) : sheetRet[k][1] # "Msg"
        /\ \A k \in 1..Len(sheetOld.flowws) :
             /\ sheetRet[TrackPosition(sheetOld.flowws, k)]
                    = << "Track", sheetOld.names[k] >>
             /\ \A j \in 1..Len(sheetOld.flowws[k]) :
                    sheetRet[TrackPosition(sheetOld.flowws, k) + j]
                        = << "Point", sheetOld.flowws[k][j] >>

\* A sheet of three tracks, the first without points and the second with its
\* points out of time order, was turned into packets
C11_Witness ==
    /\ sheetOp = "to_floww_packets"
    /\ Len(sheetOld.flowws) = 3
    /\ sheetOld.flowws[1] = << >>
    /\ sheetOld.flowws[2] = << P2, P1 >>
    /\ sheetRet[1][1] = "Track"
    /\ sheetRet[2][1] = "Track"
    /\ sheetRet[3] = << "Point", P2 >>

\* C12: reset(name, new) with a present name returns true and replaces the
\* timeline of that name only; names, map and every other timeline stay.  With
\* an absent name it returns false and the sheet stays as it was.
C12_ResetFrame ==
    sheetOp = "reset" =>
        IF sheetArg[1] \in DOMAIN sheetOld.map
        THEN /\ sheetRet = TRUE
             /\ sheet.names = sheetOld.names
             /\ sheet.map = sheetOld.map
             /\ Len(sheet.flowws) = Len(sheetOld.flowws)
             /\ \A i \in 0..(Len(sheet.flowws) - 1) :
                    sheet.flowws[i + 1] =
                        IF i = sheetOld.map[sheetArg[1]] THEN sheetArg[2]
                        ELSE sheetOld.flowws[i + 1]
        ELSE /\ sheetRet = FALSE
             /\ sheet = sheetOld

\* The timeline of a name that is not the first of three was replaced
C12_Witness ==
    /\ sheetOp = "reset"
    /\ sheetRet = TRUE
    /\ Len(sheetOld.flowws) = 3
    /\ sheetOld.map[sheetArg[1]] = 1
    /\ sheetOld.flowws[2] # sheetArg[2]
    /\ sheet.flowws[2] = sheetArg[2]
    /\ sheet.flowws[1] # sheetArg[2]

\* C16: get_floww_ref_by_name never panics; it returns the timeline stored
\* last under the name by add or reset, and an empty slice for a name the
\* sheet does not have.
C16_GetNeverFails ==
    /\ sheetOp # "panicked"
    /\ \A n \in SheetNames : GetInRange(sheet, n)
    /\ sheetOp = "get_floww_ref_by_name" =>
          sheetRet = IF sheetArg[1] \in DOMAIN stored THEN stored[sheetArg[1]]
                     ELSE << >>

\* The second of two names was read and gave the timeline stored under it;
\* another name is absent
C16_Witness ==
    /\ sheetOp = "get_floww_ref_by_name"
    /\ sheetArg[1] \in DOMAIN sheet.map
    /\ sheet.map[sheetArg[1]] = 1
    /\ sheetRet = << P2, P1 >>
    /\ stored[sheetArg[1]] = << P2, P1 >>
    /\ Len(sheet.flowws) = 2
    /\ sheet.flowws[1] = << P1 >>
    /\ DOMAIN sheet.map # SheetNames

\* C18: for a sheet built by add with pairwise distinct names, unpacket on
\* its packets, with its map and one empty destination per track, returns no
\* messages and leaves destination i equal to timeline i of the sheet.
C18_SheetRoundTrip ==
    (sheetOp = "unpacket" /\ ~dup) =>
        /\ messages = << >>
        /\ flowws = sheet.flowws

\* The packets of three tracks, the first one empty, were unpacketed
C18_Witness ==
    /\ sheetOp = "unpacket"
    /\ ~dup
    /\ Len(sheet.flowws) = 3
    /\ sheet.flowws[1] = << >>
    /\ sheet.flowws[2] = << P2, P1 >>
    /\ sheet.flowws[3] = << P1 >>
    /\ flowws = sheet.flowws

====
